---- MODULE Spec2Model ----
(***************************************************************************)
(* Quantization weight tables of the JPEG XL codec (jxl/quant_weights.h).  *)
(*                                                                         *)
(* The state machines of this module:                                      *)
(*   SpecQE       the lifetime of QuantEncoding values: RAW(), the other   *)
(*                factories, copy/move construction, operator= and the     *)
(*                destructor, over a heap of std::vector<int> tables;      *)
(*   Spec         one DequantMatrices instance: construction, SetCustom    *)
(*                and SetCustomDC;                                         *)
(*   SpecReaders  threads calling the accessors of one instance;           *)
(*   SpecSteps    SetCustom statement by statement;                        *)
(*   SpecParams   the constructors of DctQuantWeightParams;                *)
(*   SpecRows     BytesPerRow (jxl/image.cc).                              *)
(***************************************************************************)
EXTENDS Integers, Sequences, FiniteSets, TLC

VARIABLES
    inst,           \* QuantEncoding objects, by slot
    heap,           \* std::vector<int> objects made by new, by allocation id
    proc,           \* "running", "aborted" (jxl::Abort) or "crashed" (read of released memory)
    uaf,            \* a released table has been read
    last,           \* the last QuantEncoding operation and what it saw
    pc,             \* the DequantMatrices instance: "none", "ready" or "aborted"
    encodings_,     \* DequantMatrices::encodings_
    table_,         \* DequantMatrices::table_, by the offset a table starts at
    table_offsets_, \* DequantMatrices::table_offsets_
    size_,          \* DequantMatrices::size_
    dc_quant_,      \* DequantMatrices::dc_quant_
    inv_dc_quant_,  \* DequantMatrices::inv_dc_quant_
    calls,          \* writer calls made on the instance so far
    dmLast,         \* the last DequantMatrices operation and what it saw
    rd,             \* the accessor call each reader thread is in
    st,             \* the SetCustom call in progress: statement reached, locals
    prm,            \* the DctQuantWeightParams value last constructed
    rowCall         \* the last BytesPerRow call and its result

qeVars == <<inst, heap, proc, uaf, last>>

dmVars ==
    <<pc, encodings_, table_, table_offsets_, size_, dc_quant_, inv_dc_quant_,
      calls, dmLast>>

auxVars == <<rd, st, prm, rowCall>>

vars ==
    <<inst, heap, proc, uaf, last, pc, encodings_, table_, table_offsets_, size_,
      dc_quant_, inv_dc_quant_, calls, dmLast, rd, st, prm, rowCall>>

-----------------------------------------------------------------------------
(* Bounds of the QuantEncoding lifetime model. *)

MaxInst == 2

MaxAllocs == 3

(* Library() is called with 0..MaxPredefinedArg and with 255, the largest  *)
(* uint8_t.                                                                *)
MaxPredefinedArg == 2

Slots == 1..MaxInst

Addrs == 1..MaxAllocs

(* nullptr *)
NullPtr == 0

(* The tables and shifts RAW() is called with. *)
QTableSet == {<<1>>, <<0, 2>>}

ShiftSet == {0, 1}

LibraryArgs == (0..MaxPredefinedArg) \cup {255}

kNumPredefinedTables == 1

-----------------------------------------------------------------------------
(* QuantEncodingInternal::Mode *)

kQuantModeLibrary == "Library"

kQuantModeID == "ID"

kQuantModeDCT2 == "DCT2"

kQuantModeDCT4 == "DCT4"

kQuantModeDCT4X8 == "DCT4X8"

kQuantModeAFV == "AFV"

kQuantModeDCT == "DCT"

kQuantModeRAW == "RAW"

Mode ==
    <<kQuantModeLibrary, kQuantModeID, kQuantModeDCT2, kQuantModeDCT4,
      kQuantModeDCT4X8, kQuantModeAFV, kQuantModeDCT, kQuantModeRAW>>

Modes == {Mode[i] : i \in 1..Len(Mode)}

(* The modes whose factory takes weights and owns no heap data. *)
PlainModes == Modes \ {kQuantModeLibrary, kQuantModeRAW}

-----------------------------------------------------------------------------
(* QuantEncoding objects.  mode, and the qraw member of the union: the     *)
(* other members of the union own nothing and are read only under their    *)
(* own mode, so an object in another mode carries a null qraw here.        *)

NoObject ==
    [alive |-> FALSE, mode |-> kQuantModeLibrary, predefined |-> 0,
     qtable |-> NullPtr, shift |-> 0]

Object(m, p, s) ==
    [alive |-> TRUE, mode |-> m, predefined |-> 0, qtable |-> p, shift |-> s]

UnusedCell == [st |-> "unused", data |-> <<>>, frees |-> 0]

NoOp == [op |-> "none", dst |-> 0, src |-> 0, arg |-> 0, srcMode |-> kQuantModeLibrary,
         srcPtr |-> NullPtr, srcData |-> <<>>, srcShift |-> 0]

Record(name, d, s) ==
    [op |-> name, dst |-> d, src |-> s, arg |-> 0, srcMode |-> inst[s].mode,
     srcPtr |-> inst[s].qtable,
     srcData |-> IF inst[s].qtable = NullPtr THEN <<>> ELSE heap[inst[s].qtable].data,
     srcShift |-> inst[s].shift]

InitQE ==
    /\ inst = [i \in Slots |-> NoObject]
    /\ heap = [a \in Addrs |-> UnusedCell]
    /\ proc = "running"
    /\ uaf = FALSE
    /\ last = NoOp

(* operator new: an allocation never handed out before. *)
Fresh(h) == {a \in Addrs : h[a].st = "unused" /\ \A b \in Addrs : b < a => h[b].st # "unused"}

(* delete p: the storage is released and its contents are gone. *)
Delete(h, p) == [h EXCEPT ![p] = [st |-> "freed", data |-> <<>>, frees |-> @.frees + 1]]

(* What reading the table at p yields: the table while it is live; anything once it    *)
(* has been released.                                                      *)
ReadTable(h, p) == IF h[p].st = "live" THEN {h[p].data} ELSE QTableSet

Outcome(ins, h, c) == [inst |-> ins, heap |-> h, proc |-> c, uaf |-> FALSE]

ReadReleased(o) == [o EXCEPT !.uaf = TRUE]

(* qraw.qtable = new std::vector<int>(table at p), on the object in slot i. *)
(* Reading a released table is undefined: the copy holds anything, or the     *)
(* process dies.                                                           *)
DeepCopy(ins, h, i, p) ==
    IF h[p].st = "live"
    THEN {Outcome([ins EXCEPT ![i].qtable = a],
                  [h EXCEPT ![a] = [st |-> "live", data |-> h[p].data, frees |-> 0]],
                  "running") : a \in Fresh(h)}
    ELSE {ReadReleased(Outcome([ins EXCEPT ![i].qtable = a],
                               [h EXCEPT ![a] = [st |-> "live", data |-> t, frees |-> 0]],
                               "running")) : a \in Fresh(h), t \in ReadTable(h, p)}
         \cup {ReadReleased(Outcome(ins, h, "crashed"))}

(* The copy the implicit QuantEncodingInternal copy constructor makes. *)
BaseCopy(o) == [o EXCEPT !.alive = TRUE]

OwnsTable(o) == o.mode = kQuantModeRAW /\ o.qtable # NullPtr

(* QuantEncoding(const QuantEncoding& other), building slot i from slot j *)
CopyConstructOutcomes(i, j) ==
    LET ins1 == [inst EXCEPT ![i] = BaseCopy(inst[j])]
    IN  IF OwnsTable(ins1[i])
        THEN DeepCopy(ins1, heap, i, inst[j].qtable)
        ELSE {Outcome(ins1, heap, "running")}

(* A move constructor that forgets to null the source. *)
MoveConstructOutcomes_KeepsSource(i, j) ==
    {Outcome([inst EXCEPT ![i] = BaseCopy(inst[j])], heap, "running")}

(* QuantEncoding(QuantEncoding&& other) *)
MoveConstructOutcomes(i, j) ==
    LET ins1 == [inst EXCEPT ![i] = BaseCopy(inst[j])]
    IN  IF ins1[i].mode = kQuantModeRAW
        THEN {Outcome([ins1 EXCEPT ![j].qtable = NullPtr], heap, "running")}
        ELSE {Outcome(ins1, heap, "running")}

(* QuantEncoding& operator=(const QuantEncoding& other), this = slot i,    *)
(* other = slot j (i = j is self-assignment).                               *)
AssignOutcomes(i, j) ==
    LET h1 == IF OwnsTable(inst[i]) THEN Delete(heap, inst[i].qtable) ELSE heap
        ins1 == [inst EXCEPT ![i] = BaseCopy(inst[j])]
    IN  IF OwnsTable(ins1[i])
        THEN DeepCopy(ins1, h1, i, ins1[j].qtable)
        ELSE {Outcome(ins1, h1, "running")}

(* ~QuantEncoding() *)
DestroyOutcomes(i) ==
    LET h1 == IF OwnsTable(inst[i]) THEN Delete(heap, inst[i].qtable) ELSE heap
    IN  {Outcome([inst EXCEPT ![i] = NoObject], h1, "running")}

(* static QuantEncoding RAW(const std::vector<int>& qtable, int shift) *)
RAWOutcomes(i, t, s) ==
    {Outcome([inst EXCEPT ![i] = Object(kQuantModeRAW, a, s)],
             [heap EXCEPT ![a] = [st |-> "live", data |-> t, frees |-> 0]],
             "running") : a \in Fresh(heap)}

(* An off-by-one bound check. *)
LibraryOutcomes_OffByOne(i, predefined) ==
    IF predefined <= kNumPredefinedTables
    THEN {Outcome([inst EXCEPT ![i] =
                      [Object(kQuantModeLibrary, NullPtr, 0) EXCEPT !.predefined = predefined]],
                  heap, "running")}
    ELSE {Outcome(inst, heap, "aborted")}

(* static QuantEncoding Library(uint8_t predefined): the value, or Abort *)
LibraryOutcomes(i, predefined) ==
    IF predefined < kNumPredefinedTables
    THEN {Outcome([inst EXCEPT ![i] =
                      [Object(kQuantModeLibrary, NullPtr, 0) EXCEPT !.predefined = predefined]],
                  heap, "running")}
    ELSE {Outcome(inst, heap, "aborted")}

Apply(o) ==
    /\ inst' = o.inst
    /\ heap' = o.heap
    /\ proc' = o.proc
    /\ uaf' = (uaf \/ o.uaf)
    /\ UNCHANGED dmVars
    /\ UNCHANGED auxVars

RAW(i, t, s) ==
    /\ proc = "running" /\ ~inst[i].alive
    /\ \E o \in RAWOutcomes(i, t, s) : Apply(o)
    /\ last' = [NoOp EXCEPT !.op = "RAW", !.dst = i, !.srcData = t, !.srcShift = s]

Library(i, predefined) ==
    /\ proc = "running" /\ ~inst[i].alive
    /\ \E o \in LibraryOutcomes(i, predefined) : Apply(o)
    /\ last' = [NoOp EXCEPT !.op = "Library", !.dst = i, !.arg = predefined]

(* Identity, DCT2, DCT4, DCT4X8, AFV, DCT: values that own no heap data. *)
Plain(i, m) ==
    /\ proc = "running" /\ ~inst[i].alive
    /\ Apply(Outcome([inst EXCEPT ![i] = Object(m, NullPtr, 0)], heap, "running"))
    /\ last' = [NoOp EXCEPT !.op = "Plain", !.dst = i]

CopyConstruct(i, j) ==
    /\ proc = "running" /\ ~inst[i].alive /\ inst[j].alive
    /\ \E o \in CopyConstructOutcomes(i, j) : Apply(o)
    /\ last' = Record("CopyConstruct", i, j)

MoveConstruct(i, j) ==
    /\ proc = "running" /\ ~inst[i].alive /\ inst[j].alive
    /\ \E o \in MoveConstructOutcomes(i, j) : Apply(o)
    /\ last' = Record("MoveConstruct", i, j)

Assign(i, j) ==
    /\ proc = "running" /\ inst[i].alive /\ inst[j].alive
    /\ \E o \in AssignOutcomes(i, j) : Apply(o)
    /\ last' = Record("Assign", i, j)

(* a = std::move(b): QuantEncoding declares no move assignment, so this    *)
(* binds to operator=(const QuantEncoding&).  b is another object; b = a   *)
(* with both the same object is Assign(i, i).                              *)
MoveAssign(i, j) ==
    /\ proc = "running" /\ inst[i].alive /\ inst[j].alive /\ i # j
    /\ \E o \in AssignOutcomes(i, j) : Apply(o)
    /\ last' = Record("MoveAssign", i, j)

Destroy(i) ==
    /\ proc = "running" /\ inst[i].alive
    /\ \E o \in DestroyOutcomes(i) : Apply(o)
    /\ last' = [NoOp EXCEPT !.op = "Destroy", !.dst = i]

NextQE ==
    \/ \E i \in Slots, t \in QTableSet, s \in ShiftSet : RAW(i, t, s)
    \/ \E i \in Slots, p \in LibraryArgs : Library(i, p)
    \/ \E i \in Slots, m \in PlainModes : Plain(i, m)
    \/ \E i, j \in Slots : CopyConstruct(i, j)
    \/ \E i, j \in Slots : MoveConstruct(i, j)
    \/ \E i, j \in Slots : Assign(i, j)
    \/ \E i, j \in Slots : MoveAssign(i, j)
    \/ \E i \in Slots : Destroy(i)


-----------------------------------------------------------------------------
(* Claims about QuantEncoding, checked under SpecQE. *)

Dst == inst[last.dst]

Src == inst[last.src]

Owners(a) == {i \in Slots : inst[i].alive /\ OwnsTable(inst[i]) /\ inst[i].qtable = a}

(* C3: after copy construction or copy assignment from a RAW-mode source   *)
(* that holds a table (self-assignment included), the destination is in    *)
(* RAW mode and owns a live table with the contents and the shift the      *)
(* source had before, in storage other than the source's, and the source   *)
(* still holds its table with the same contents.                           *)
C3_CopyIsDeep ==
    (last.op \in {"CopyConstruct", "Assign"} /\ last.srcMode = kQuantModeRAW
        /\ last.srcPtr # NullPtr)
    => /\ proc = "running"
       /\ Dst.mode = kQuantModeRAW
       /\ Dst.qtable # NullPtr
       /\ Dst.qtable # last.srcPtr
       /\ heap[Dst.qtable].st = "live"
       /\ heap[Dst.qtable].data = last.srcData
       /\ Dst.shift = last.srcShift
       /\ Src.qtable # NullPtr
       /\ heap[Src.qtable].st = "live"
       /\ heap[Src.qtable].data = last.srcData
       /\ (last.src # last.dst => Src.qtable = last.srcPtr)

(* C4 as stated: after move construction or move assignment from a RAW     *)
(* source holding a table, the destination holds that very table and the   *)
(* source's pointer is null.                                               *)
C4_MoveTransfers ==
    (last.op \in {"MoveConstruct", "MoveAssign"} /\ last.srcMode = kQuantModeRAW
        /\ last.srcPtr # NullPtr)
    => /\ Dst.qtable = last.srcPtr
       /\ Src.qtable = NullPtr

(* C4 as amended: move construction from a RAW source hands the source's   *)
(* table to the destination and nulls the source's pointer; an assignment  *)
(* from an rvalue of another object runs the copy assignment: the source   *)
(* keeps its table and the destination owns a separate copy of it.         *)
C4_MoveConstructTransfers ==
    /\ (last.op = "MoveConstruct" /\ last.srcMode = kQuantModeRAW)
       => /\ Dst.mode = kQuantModeRAW
          /\ Dst.qtable = last.srcPtr
          /\ Dst.shift = last.srcShift
          /\ Src.qtable = NullPtr
          /\ last.srcPtr # NullPtr
             => /\ heap[last.srcPtr].st = "live"
                /\ heap[last.srcPtr].data = last.srcData
                /\ Owners(last.srcPtr) = {last.dst}
    /\ (last.op = "MoveAssign" /\ last.srcMode = kQuantModeRAW /\ last.srcPtr # NullPtr)
       => /\ Src.qtable = last.srcPtr
          /\ Dst.qtable \notin {NullPtr, last.srcPtr}
          /\ heap[Dst.qtable].data = last.srcData
          /\ heap[last.srcPtr].st = "live"

C4_Witness ==
    /\ last.op = "MoveConstruct"
    /\ last.srcMode = kQuantModeRAW
    /\ last.srcPtr # NullPtr
    /\ Dst.qtable = last.srcPtr
    /\ Src.alive /\ Src.qtable = NullPtr

(* C6: Library(idx) yields a value, in mode Library with predefined = idx, *)
(* exactly when idx < kNumPredefinedTables; for any other idx the process  *)
(* is aborted and the slot the value was meant for holds no object.        *)
C6_LibraryChecksIndex ==
    last.op = "Library"
    => IF last.arg < kNumPredefinedTables
       THEN /\ proc = "running"
            /\ Dst.alive
            /\ Dst.mode = kQuantModeLibrary
            /\ Dst.predefined = last.arg
       ELSE /\ proc = "aborted"
            /\ ~Dst.alive

C6_Witness ==
    /\ last.op = "Library"
    /\ last.arg >= kNumPredefinedTables
    /\ proc = "aborted"

(* C5: every allocated table is released at most once and never read after *)
(* its release, and every live table is owned by exactly one live object   *)
(* (so the destructor of that object is what releases it, once).           *)
C5_HeapDiscipline ==
    /\ ~uaf
    /\ proc # "crashed"
    /\ \A a \in Addrs :
        /\ heap[a].frees <= 1
        /\ heap[a].st = "live" => Cardinality(Owners(a)) = 1
        /\ heap[a].st = "freed" => heap[a].frees = 1
    /\ \A i \in Slots :
        (inst[i].alive /\ OwnsTable(inst[i])) => heap[inst[i].qtable].st = "live"

-----------------------------------------------------------------------------
(* DequantMatrices: constants of quant_weights.h. *)

kLog2NumQuantModes == 3

kCeilLog2NumPredefinedTables == 0

kLog2MaxDistanceBands == 4

kMaxDistanceBands == 1 + 2^kLog2MaxDistanceBands

kDCTBlockSize == 64

kNum == 11

kNumValidStrategies == 18

(* enum QuantTable *)
QuantTable ==
    [DCT |-> 0, IDENTITY |-> 1, DCT2X2 |-> 2, DCT4X4 |-> 3, DCT16X16 |-> 4,
     DCT32X32 |-> 5, DCT8X16 |-> 6, DCT8X32 |-> 7, DCT16X32 |-> 8, DCT4X8 |-> 9,
     AFV0 |-> 10]

(* A table of kinds in which no kind uses the DCT16X32 table. *)
kQuantTable_SkipsATable ==
    <<QuantTable.DCT, QuantTable.IDENTITY, QuantTable.DCT2X2,
      QuantTable.DCT4X4, QuantTable.DCT16X16, QuantTable.DCT32X32,
      QuantTable.DCT8X16, QuantTable.DCT8X16, QuantTable.DCT8X32,
      QuantTable.DCT8X32, QuantTable.DCT8X32, QuantTable.DCT8X32,
      QuantTable.DCT4X8, QuantTable.DCT4X8, QuantTable.AFV0,
      QuantTable.AFV0, QuantTable.AFV0, QuantTable.AFV0>>

(* kQuantTable[kind], kind = 0..17, is kQuantTable[kind + 1] here. *)
kQuantTable ==
    <<QuantTable.DCT, QuantTable.IDENTITY, QuantTable.DCT2X2,
      QuantTable.DCT4X4, QuantTable.DCT16X16, QuantTable.DCT32X32,
      QuantTable.DCT8X16, QuantTable.DCT8X16, QuantTable.DCT8X32,
      QuantTable.DCT8X32, QuantTable.DCT16X32, QuantTable.DCT16X32,
      QuantTable.DCT4X8, QuantTable.DCT4X8, QuantTable.AFV0,
      QuantTable.AFV0, QuantTable.AFV0, QuantTable.AFV0>>

required_size_x_ == <<1, 1, 1, 1, 2, 4, 1, 1, 2, 1, 1>>

required_size_y_ == <<1, 1, 1, 1, 2, 4, 2, 4, 4, 1, 1>>

(* A size array that counts DCT8X16 as one block. *)
required_size_OneBlockFor8X16 == <<1, 1, 1, 1, 4, 16, 1, 4, 8, 1, 1>>

required_size_ == <<1, 1, 1, 1, 4, 16, 2, 4, 8, 1, 1>>

RECURSIVE ArraySum(_, _)
(* ArraySum(a, i) = a[0] + ... + a[i], the array indexed from 0 *)
ArraySum(a, i) == IF i = 0 THEN a[1] ELSE a[i + 1] + ArraySum(a, i - 1)

kTotalTableSize == ArraySum(required_size_, kNum - 1) * kDCTBlockSize * 3

kMaxQuantTableSize == kDCTBlockSize * 16

(* hwy::AllocateAligned<float>(2 * kTotalTableSize): the floats of table_ *)
AllocatedFloats == 2 * kTotalTableSize

Tables == 0..(kNum - 1)

Kinds == 0..(kNumValidStrategies - 1)

Channels == 0..2

-----------------------------------------------------------------------------
(* Numbers.  A float is a pair <<n, d>> of naturals standing for n / d;    *)
(* d = 0 is a non-finite value.  The values given to the program are small *)
(* integers and halves, exact in a float; a quotient is rounded to the 24  *)
(* significant bits of a float.                                            *)

RECURSIVE Gcd(_, _)
Gcd(a, b) == IF b = 0 THEN a ELSE Gcd(b, a % b)

Norm(q) ==
    LET g == Gcd(q[1], q[2])
    IN  IF g = 0 THEN q ELSE <<q[1] \div g, q[2] \div g>>

Float(n) == <<n, 1>>

RECURSIVE OddPart(_)
(* n without its factors of two, n > 0 *)
OddPart(n) == IF n % 2 = 0 THEN OddPart(n \div 2) ELSE n

(* The number of bits of n, 0 < n < 128 *)
BitLength(n) == CHOOSE b \in 1..7 : 2^(b - 1) <= n /\ n < 2^b

(* num / den rounded to the nearest integer, ties to even *)
RoundedQuotient(num, den) ==
    LET quo == num \div den
        rem == num % den
    IN  IF 2 * rem > den \/ (2 * rem = den /\ quo % 2 = 1) THEN quo + 1 ELSE quo

(* The float nearest to 1 / o for an odd o, 1 < o < 128: a significand of  *)
(* 24 bits over a power of two.                                            *)
NearestRecip(o) ==
    LET k == BitLength(o) + 23
    IN  <<RoundedQuotient(2^k, o), 2^k>>

(* 1.0f / q: exact when the numerator of q is a power of two, rounded to   *)
(* the nearest float otherwise.  The values divided have an odd part below *)
(* 128.                                                                    *)
Recip(q) ==
    IF q[1] = 0 \/ q[2] = 0 THEN Norm(<<q[2], q[1]>>)
    ELSE LET o == OddPart(q[1])
         IN  IF o = 1 \/ o >= 128 THEN Norm(<<q[2], q[1]>>)
             ELSE LET r == NearestRecip(o)
                      m == Norm(<<q[2] * r[1], r[2]>>)
                  IN  Norm(<<m[1], m[2] * (q[1] \div o)>>)

Mul(p, q) == Norm(<<p[1] * q[1], p[2] * q[2]>>)

IsFinite(q) == q[2] # 0

IsPositive(q) == q[1] > 0 /\ q[2] > 0

(* const float kInvDCQuant[3] *)
kInvDCQuant == <<Float(4096), Float(512), Float(256)>>

(* const float kDCQuant[3] *)
kDCQuant == <<Recip(kInvDCQuant[1]), Recip(kInvDCQuant[2]), Recip(kInvDCQuant[3])>>

-----------------------------------------------------------------------------
(* DctQuantWeightParams *)

ZeroBands == [c \in 1..3 |-> [k \in 1..kMaxDistanceBands |-> 0]]

(* constexpr DctQuantWeightParams() *)
DctQuantWeightParams0 == [num_distance_bands |-> 0, distance_bands |-> ZeroBands]

(* explicit DctQuantWeightParams(const float dist_bands[3][num_dist_bands]): *)
(* the first num_dist_bands values of each channel are copied into the      *)
(* zero-initialized array.                                                  *)
DctQuantWeightParams(dist_bands) ==
    [num_distance_bands |-> Len(dist_bands[1]),
     distance_bands |->
        [c \in 1..3 |-> [k \in 1..kMaxDistanceBands |->
            IF k <= Len(dist_bands[c]) THEN dist_bands[c][k] ELSE 0]]]

-----------------------------------------------------------------------------
(* QuantEncoding values as DequantMatrices holds them.  The members of the *)
(* first union share the field weights; a RAW value carries its table.     *)

Enc(m) ==
    [mode |-> m, predefined |-> 0, dct_params |-> DctQuantWeightParams0,
     dct_params_afv_4x4 |-> DctQuantWeightParams0, weights |-> <<>>,
     qtable |-> <<>>, shift |-> 0]

EncLibrary(predefined) == [Enc(kQuantModeLibrary) EXCEPT !.predefined = predefined]

EncIdentity(xybweights) == [Enc(kQuantModeID) EXCEPT !.weights = xybweights]

EncDCT2(xybweights) == [Enc(kQuantModeDCT2) EXCEPT !.weights = xybweights]

EncDCT4(params, xybmul) ==
    [Enc(kQuantModeDCT4) EXCEPT !.dct_params = params, !.weights = xybmul]

EncDCT4X8(params, xybmul) ==
    [Enc(kQuantModeDCT4X8) EXCEPT !.dct_params = params, !.weights = xybmul]

EncDCT(params) == [Enc(kQuantModeDCT) EXCEPT !.dct_params = params]

EncAFV(params4x8, params4x4, weights) ==
    [Enc(kQuantModeAFV) EXCEPT !.dct_params = params4x8, !.weights = weights,
                               !.dct_params_afv_4x4 = params4x4]

EncRAW(qtable, shift) == [Enc(kQuantModeRAW) EXCEPT !.qtable = qtable, !.shift = shift]

-----------------------------------------------------------------------------
(* The bitstream codec.  A stream is the sequence of the fields written,   *)
(* one element per field: a fixed-width field holds its value modulo 2^n,  *)
(* a float or a RAW integer is carried as it is.                           *)

Flatten(rows) == rows[1] \o rows[2] \o rows[3]

(* BitWriter::Write(n_bits, bits): the low n_bits of the value; a field of *)
(* no bits writes nothing.                                                 *)
Write(n_bits, bits) ==
    IF n_bits = 0 THEN <<>> ELSE <<(bits + 2^n_bits) % 2^n_bits>>

(* The position of a mode in enum Mode. *)
ModeIndex(m) == CHOOSE i \in 0..(Len(Mode) - 1) : Mode[i + 1] = m

EncodeDctParams(params) ==
    Write(kLog2MaxDistanceBands, params.num_distance_bands - 1)
    \o Flatten([c \in 1..3 |->
                  SubSeq(params.distance_bands[c], 1, params.num_distance_bands)])

(* One entry: the tag, then the fields of that tag. *)
EncodeEntry(e) ==
    Write(kLog2NumQuantModes, ModeIndex(e.mode))
    \o CASE e.mode = kQuantModeLibrary ->
                Write(kCeilLog2NumPredefinedTables, e.predefined)
         [] e.mode = kQuantModeID -> Flatten(e.weights)
         [] e.mode = kQuantModeDCT2 -> Flatten(e.weights)
         [] e.mode = kQuantModeDCT4 ->
                Flatten(e.weights) \o EncodeDctParams(e.dct_params)
         [] e.mode = kQuantModeDCT4X8 ->
                Flatten(e.weights) \o EncodeDctParams(e.dct_params)
         [] e.mode = kQuantModeAFV ->
                Flatten(e.weights) \o EncodeDctParams(e.dct_params)
                \o EncodeDctParams(e.dct_params_afv_4x4)
         [] e.mode = kQuantModeDCT -> EncodeDctParams(e.dct_params)
         [] e.mode = kQuantModeRAW -> <<e.shift, Len(e.qtable)>> \o e.qtable

RECURSIVE EncodeFrom(_, _)
EncodeFrom(encodings, i) ==
    IF i > Len(encodings) THEN <<>>
    ELSE EncodeEntry(encodings[i]) \o EncodeFrom(encodings, i + 1)

(* Status DequantMatrices::Encode(BitWriter*, ...) const, followed by      *)
(* ZeroPadToByte: the bytes the reader is given.                           *)
Encode(encodings) == [ok |-> TRUE, bits |-> EncodeFrom(encodings, 1)]

(* A reader is the stream, the next position and whether every read so far *)
(* was inside the stream.                                                  *)
Reader(s) == [bits |-> s, pos |-> 1, ok |-> TRUE]

Failed(br) == [br EXCEPT !.ok = FALSE]

(* BitReader::ReadFixedBits<n_bits>() *)
ReadFixedBits(br, n_bits) ==
    IF n_bits = 0 THEN [br |-> br, v |-> 0]
    ELSE IF br.pos > Len(br.bits) THEN [br |-> Failed(br), v |-> 0]
    ELSE [br |-> [br EXCEPT !.pos = @ + 1], v |-> br.bits[br.pos] % 2^n_bits]

(* k values carried as they are *)
ReadValues(br, k) ==
    IF br.pos + k - 1 > Len(br.bits) THEN [br |-> Failed(br), v |-> <<>>]
    ELSE [br |-> [br EXCEPT !.pos = @ + k],
          v |-> SubSeq(br.bits, br.pos, br.pos + k - 1)]

(* 3 rows of k values, channel by channel *)
ReadRows(br, k) ==
    LET r == ReadValues(br, 3 * k)
    IN  [br |-> r.br,
         v |-> IF r.br.ok
               THEN [c \in 1..3 |-> SubSeq(r.v, (c - 1) * k + 1, c * k)]
               ELSE <<>>]

DecodeDctParams(br) ==
    LET f == ReadFixedBits(br, kLog2MaxDistanceBands)
        n == f.v + 1
        r == IF f.br.ok THEN ReadRows(f.br, n) ELSE [br |-> f.br, v |-> <<>>]
    IN  [br |-> r.br,
         v |-> IF r.br.ok /\ n <= kMaxDistanceBands
               THEN DctQuantWeightParams(r.v)
               ELSE DctQuantWeightParams0,
         valid |-> n <= kMaxDistanceBands]

(* The number of values per channel in the union member of a mode. *)
WeightsPerChannel(m) ==
    CASE m = kQuantModeID -> 3
      [] m = kQuantModeDCT2 -> 6
      [] m = kQuantModeDCT4 -> 2
      [] m = kQuantModeDCT4X8 -> 1
      [] m = kQuantModeAFV -> 9
      [] OTHER -> 0

(* One entry: [br, v, valid]; valid is FALSE for a field out of range. *)
DecodeEntry(br) ==
    LET tag == ReadFixedBits(br, kLog2NumQuantModes)
        m == IF tag.v < Len(Mode) THEN Mode[tag.v + 1] ELSE kQuantModeLibrary
        none == [br |-> Failed(br), v |-> Enc(kQuantModeLibrary), valid |-> FALSE]
    IN  IF ~tag.br.ok THEN [none EXCEPT !.br = tag.br, !.valid = TRUE]
        ELSE IF tag.v >= Len(Mode) THEN [none EXCEPT !.br = tag.br]
        ELSE IF m = kQuantModeLibrary THEN
            LET p == ReadFixedBits(tag.br, kCeilLog2NumPredefinedTables)
            IN  [br |-> p.br, v |-> EncLibrary(p.v),
                 valid |-> p.v < kNumPredefinedTables]
        ELSE IF m = kQuantModeRAW THEN
            LET hd == ReadValues(tag.br, 2)
                t == IF hd.br.ok THEN ReadValues(hd.br, hd.v[2])
                     ELSE [br |-> hd.br, v |-> <<>>]
            IN  [br |-> t.br,
                 v |-> IF t.br.ok THEN EncRAW(t.v, hd.v[1]) ELSE Enc(kQuantModeRAW),
                 valid |-> TRUE]
        ELSE
            LET w == IF WeightsPerChannel(m) = 0 THEN [br |-> tag.br, v |-> <<>>]
                     ELSE ReadRows(tag.br, WeightsPerChannel(m))
                usesParams == m \in {kQuantModeDCT4, kQuantModeDCT4X8,
                                     kQuantModeAFV, kQuantModeDCT}
                p1 == IF usesParams /\ w.br.ok THEN DecodeDctParams(w.br)
                      ELSE [br |-> w.br, v |-> DctQuantWeightParams0, valid |-> TRUE]
                p2 == IF m = kQuantModeAFV /\ p1.br.ok /\ p1.valid
                      THEN DecodeDctParams(p1.br)
                      ELSE [br |-> p1.br, v |-> DctQuantWeightParams0, valid |-> TRUE]
            IN  [br |-> p2.br,
                 v |-> [Enc(m) EXCEPT !.weights = w.v, !.dct_params = p1.v,
                                      !.dct_params_afv_4x4 = p2.v],
                 valid |-> p1.valid /\ p2.valid]

(* Entries i..kNum decoded in order into a copy of the encodings held;     *)
(* decoding stops at the first entry that cannot be read or is invalid.    *)
RECURSIVE DecodeFrom(_, _, _)
DecodeFrom(br, encodings, i) ==
    IF i > kNum THEN [ok |-> TRUE, br |-> br, encodings |-> encodings]
    ELSE CHOOSE r \in
            {IF ~e.br.ok \/ ~e.valid
             THEN [ok |-> FALSE, br |-> e.br, encodings |-> encodings]
             ELSE DecodeFrom(e.br, [encodings EXCEPT ![i] = e.v], i + 1) :
                e \in {DecodeEntry(br)}} : TRUE

(* bool BitReader::Close(): no read went past the end of the stream *)
Close(br) == br.ok

-----------------------------------------------------------------------------
(* Compute: the tables of the 11 logical quant tables, 3 channels each.    *)
(* A table is held as the list of the weights it is built from.            *)

BandRows(n, p) == [c \in 1..3 |-> [k \in 1..n |-> 1 + ((p + c + k) % 3)]]

Rows(k, p) == [c \in 1..3 |-> [j \in 1..k |-> 1 + ((p + c + j) % 2)]]

(* The predefined tables: one encoding per logical table, in its own mode. *)
LibraryInit ==
    <<EncDCT(DctQuantWeightParams(BandRows(6, 0))),
      EncIdentity(Rows(3, 0)),
      EncDCT2(Rows(6, 0)),
      EncDCT4(DctQuantWeightParams(BandRows(4, 0)), Rows(2, 0)),
      EncDCT(DctQuantWeightParams(BandRows(7, 1))),
      EncDCT(DctQuantWeightParams(BandRows(8, 0))),
      EncDCT(DctQuantWeightParams(BandRows(7, 0))),
      EncDCT(DctQuantWeightParams(BandRows(8, 1))),
      EncDCT(DctQuantWeightParams(BandRows(8, 2))),
      EncDCT4X8(DctQuantWeightParams(BandRows(4, 1)), Rows(1, 0)),
      EncAFV(DctQuantWeightParams(BandRows(4, 2)),
             DctQuantWeightParams(BandRows(4, 0)), Rows(9, 0))>>

BandWeights(params, c) ==
    [k \in 1..params.num_distance_bands |-> Float(params.distance_bands[c][k])]

Floats(row) == [k \in 1..Len(row) |-> Float(row[k])]

(* The weights of channel c (1..3) that a non-Library encoding yields. *)
WeightsOf(e, c) ==
    CASE e.mode = kQuantModeID -> Floats(e.weights[c])
      [] e.mode = kQuantModeDCT2 -> Floats(e.weights[c])
      [] e.mode = kQuantModeDCT4 ->
            BandWeights(e.dct_params, c)
            \o [k \in 1..Len(e.weights[c]) |->
                  Mul(Float(e.dct_params.distance_bands[c][1]), Float(e.weights[c][k]))]
      [] e.mode = kQuantModeDCT4X8 ->
            BandWeights(e.dct_params, c)
            \o [k \in 1..Len(e.weights[c]) |->
                  Mul(Float(e.dct_params.distance_bands[c][1]), Float(e.weights[c][k]))]
      [] e.mode = kQuantModeDCT -> BandWeights(e.dct_params, c)
      [] e.mode = kQuantModeAFV ->
            BandWeights(e.dct_params, c) \o BandWeights(e.dct_params_afv_4x4, c)
            \o Floats(e.weights[c])
      [] e.mode = kQuantModeRAW ->
            [k \in 1..Len(e.qtable) |-> Norm(<<e.qtable[k], 2^e.shift>>)]
      [] OTHER -> <<>>

(* const QuantEncoding* DequantMatrices::Library(): the weights of the     *)
(* predefined tables, by index predefined * kNum + table.                  *)
LibraryWeights ==
    [i \in 0..(kNumPredefinedTables * kNum - 1) |->
        [c \in 1..3 |-> WeightsOf(LibraryInit[i + 1], c)]]

(* Library: the predefined table of this shape. *)
Weights(e, t, c) ==
    IF e.mode = kQuantModeLibrary
    THEN LibraryWeights[e.predefined * kNum + t][c]
    ELSE WeightsOf(e, c)

(* A validation that only asks for a table to have weights. *)
ValidWeights_AllowsZero(ws) == Len(ws) > 0

(* A table is usable when it has weights and every one is positive and     *)
(* finite, so that its reciprocal is too.                                  *)
ValidWeights(ws) ==
    /\ Len(ws) > 0
    /\ \A k \in 1..Len(ws) : IsPositive(ws[k]) /\ IsFinite(Recip(ws[k]))

ValidTable(e, t) == \A c \in 1..3 : ValidWeights(Weights(e, t, c))

SumBefore(t) == IF t = 0 THEN 0 ELSE ArraySum(required_size_, t - 1)

(* Where the table of logical table t, channel c starts in table_. *)
TableStart(t, c) ==
    SumBefore(t) * kDCTBlockSize * 3 + c * required_size_[t + 1] * kDCTBlockSize

Starts == {TableStart(t, c) : t \in Tables, c \in Channels}

(* The places in table_ where a table starts: forward, then inverse. *)
Blocks == Starts \cup {kTotalTableSize + s : s \in Starts}

(* The table and channel of the table that starts at b. *)
BlockInfo ==
    [b \in Blocks |->
        LET s == IF b < kTotalTableSize THEN b ELSE b - kTotalTableSize
            tc == CHOOSE x \in Tables \X Channels : TableStart(x[1], x[2]) = s
        IN  [t |-> tc[1], c |-> tc[2], inv |-> b >= kTotalTableSize]]

(* table_offsets_ as Compute fills it: the start of the table of each      *)
(* kind and channel, kinds of one logical table sharing its tables.        *)
KindOffsets ==
    [k \in 0..(kNumValidStrategies * 3 - 1) |->
        TableStart(kQuantTable[(k \div 3) + 1], k % 3)]

Recips(ws) == [k \in 1..Len(ws) |-> Recip(ws[k])]

(* Status DequantMatrices::Compute(): tables are written in order; the     *)
(* first table with a weight that is not positive and finite ends it with  *)
(* failure, the tables from there on keeping what they held.               *)
FirstBad(encodings) ==
    LET bad == {t \in Tables : ~ValidTable(encodings[t + 1], t)}
    IN  IF bad = {} THEN kNum ELSE CHOOSE t \in bad : \A u \in bad : t <= u

Compute(encodings, table) ==
    CHOOSE r \in
        {[ok |-> firstBad = kNum,
          table |-> [b \in Blocks |->
             LET i == BlockInfo[b]
             IN  IF i.t >= firstBad THEN table[b]
                 ELSE IF i.inv THEN Recips(Weights(encodings[i.t + 1], i.t, i.c + 1))
                 ELSE Weights(encodings[i.t + 1], i.t, i.c + 1)],
          offsets |-> KindOffsets,
          size |-> kTotalTableSize] : firstBad \in {FirstBad(encodings)}} : TRUE

(* Status DequantMatrices::Decode(BitReader* br): the entries are read     *)
(* into encodings_, then the tables are recomputed.                        *)
Decode(br, encodings, table, offsets, size) ==
    CHOOSE d \in
        {IF ~r.ok
         THEN [ok |-> FALSE, br |-> r.br, encodings |-> r.encodings, table |-> table,
               offsets |-> offsets, size |-> size]
         ELSE CHOOSE x \in
                {[ok |-> c.ok, br |-> r.br, encodings |-> r.encodings,
                  table |-> c.table, offsets |-> c.offsets, size |-> c.size] :
                    c \in {Compute(r.encodings, table)}} : TRUE :
            r \in {DecodeFrom(br, encodings, 1)}} : TRUE

-----------------------------------------------------------------------------
(* The DequantMatrices instance. *)

MaxCalls == 2

NoDMOp == [op |-> "none", arg |-> <<>>, dc |-> <<>>]

InitDM ==
    /\ pc = "none"
    /\ encodings_ = <<>>
    /\ table_ = [b \in Blocks |-> <<>>]
    /\ table_offsets_ = [k \in 0..(kNumValidStrategies * 3 - 1) |-> 0]
    /\ size_ = 0
    /\ dc_quant_ = <<Float(0), Float(0), Float(0)>>
    /\ inv_dc_quant_ = <<Float(0), Float(0), Float(0)>>
    /\ calls = 0
    /\ dmLast = NoDMOp

(* No reader is in a call, no SetCustom is in progress, nothing else has   *)
(* been constructed or called.                                             *)
MaxReaders == 2

Threads == 1..MaxReaders

IdleReader == [at |-> "idle", fn |-> "none", quant_kind |-> 0, c |-> 0, ret |-> <<>>]

NoStep == [at |-> "none", arg |-> <<>>, writer |-> <<>>, br |-> <<>>, trace |-> <<>>]

NoParams == [op |-> "none", num_dist_bands |-> 0, written |-> 0, overrun |-> FALSE,
             v |-> DctQuantWeightParams0]

NoRow == [xsize |-> 0, sizeof_t |-> 0, vec_size |-> 0, kAlignment |-> 0,
          bytes_per_row |-> 0]

InitAux ==
    /\ rd = [t \in Threads |-> IdleReader]
    /\ st = NoStep
    /\ prm = NoParams
    /\ rowCall = NoRow

Init == InitQE /\ InitDM /\ InitAux

(* The fields of the instance as one value. *)
Cur ==
    [pc |-> pc, encodings |-> encodings_, table |-> table_,
     offsets |-> table_offsets_, size |-> size_,
     dc_quant |-> dc_quant_, inv_dc_quant |-> inv_dc_quant_]

ApplyDM(o) ==
    /\ pc' = o.pc
    /\ encodings_' = o.encodings
    /\ table_' = o.table
    /\ table_offsets_' = o.offsets
    /\ size_' = o.size
    /\ dc_quant_' = o.dc_quant
    /\ inv_dc_quant_' = o.inv_dc_quant
    /\ UNCHANGED qeVars

(* JXL_CHECK / JXL_ASSERT: the process goes on only when the condition holds *)
Checked(cond) == IF cond THEN "ready" ELSE "aborted"

(* A constructor that leaves the tables as they were allocated. *)
DequantMatrices_NoCompute ==
    [Cur EXCEPT !.pc = "ready",
                !.encodings = [i \in 1..kNum |-> EncLibrary(0)],
                !.dc_quant = kDCQuant,
                !.inv_dc_quant = kInvDCQuant]

(* DequantMatrices::DequantMatrices() *)
DequantMatrices ==
    LET e == [i \in 1..kNum |-> EncLibrary(0)]
        c == Compute(e, table_)
    IN  [Cur EXCEPT !.pc = Checked(c.ok),
                    !.encodings = e,
                    !.table = c.table,
                    !.offsets = c.offsets,
                    !.size = c.size,
                    !.dc_quant = kDCQuant,
                    !.inv_dc_quant = kInvDCQuant]

(* A SetCustom that installs the encodings without the encode / decode    *)
(* round trip, so that the tables are not recomputed.                      *)
SetCustomOutcome_SkipsRoundTrip(encodings) ==
    IF Len(encodings) # kNum THEN [Cur EXCEPT !.pc = "aborted"]
    ELSE [Cur EXCEPT !.encodings = encodings]

(* A SetCustom that installs the encodings before it looks at their       *)
(* number.                                                                 *)
SetCustomOutcome_InstallsBeforeLengthCheck(encodings) ==
    IF Len(encodings) # kNum
    THEN [Cur EXCEPT !.encodings = encodings, !.pc = "aborted"]
    ELSE CHOOSE o \in
            {[Cur EXCEPT !.pc = Checked(d.ok /\ Close(d.br)),
                         !.encodings = d.encodings,
                         !.table = d.table,
                         !.offsets = d.offsets,
                         !.size = d.size] :
                d \in {Decode(Reader(Encode(encodings).bits), encodings, table_,
                              table_offsets_, size_)}} : TRUE

(* A SetCustom that validates first and returns without installing. *)
SetCustomOutcome_ValidatesFirst(encodings) ==
    IF Len(encodings) # kNum THEN [Cur EXCEPT !.pc = "aborted"]
    ELSE CHOOSE o \in
            {IF d.ok
             THEN [Cur EXCEPT !.encodings = d.encodings, !.table = d.table,
                              !.offsets = d.offsets, !.size = d.size]
             ELSE Cur :
                d \in {Decode(Reader(Encode(encodings).bits), encodings, table_,
                              table_offsets_, size_)}} : TRUE

(* void DequantMatrices::SetCustom(const std::vector<QuantEncoding>&) *)
SetCustomOutcome(encodings) ==
    IF Len(encodings) # kNum THEN [Cur EXCEPT !.pc = "aborted"]
    ELSE LET installed == [Cur EXCEPT !.encodings = encodings]
             w == Encode(installed.encodings)
         IN  IF ~w.ok THEN [installed EXCEPT !.pc = "aborted"]
             ELSE CHOOSE o \in
                    {[installed EXCEPT !.pc = Checked(d.ok /\ Close(d.br)),
                                       !.encodings = d.encodings,
                                       !.table = d.table,
                                       !.offsets = d.offsets,
                                       !.size = d.size] :
                        d \in {Decode(Reader(w.bits), installed.encodings, table_,
                                      table_offsets_, size_)}} : TRUE

(* EncodeDC / DecodeDC: the three inverse DC quantizers, carried as they   *)
(* are; a value whose reciprocal is not finite is refused.                 *)
EncodeDC(inv_dc) == [ok |-> TRUE, bits |-> inv_dc]

DecodeDC(br) ==
    LET r == ReadValues(br, 3)
        good == r.br.ok /\ \A c \in 1..3 : IsPositive(r.v[c])
    IN  [ok |-> good, br |-> r.br,
         inv_dc_quant |-> r.v,
         dc_quant |-> IF good THEN [c \in 1..3 |-> Recip(r.v[c])] ELSE <<>>]

(* A SetCustomDC that stores the new inverse quantizers and leaves        *)
(* dc_quant_ as it was.                                                    *)
SetCustomDCOutcome_KeepsQuant(dc) ==
    LET set == [Cur EXCEPT !.inv_dc_quant = dc]
        d == DecodeDC(Reader(EncodeDC(set.inv_dc_quant).bits))
    IN  IF ~d.ok THEN [set EXCEPT !.pc = "aborted"]
        ELSE [set EXCEPT !.pc = Checked(Close(d.br)),
                         !.inv_dc_quant = d.inv_dc_quant]

(* void DequantMatrices::SetCustomDC(const float* dc) *)
SetCustomDCOutcome(dc) ==
    LET set == [Cur EXCEPT !.dc_quant = [c \in 1..3 |-> Recip(dc[c])],
                           !.inv_dc_quant = dc]
        w == EncodeDC(set.inv_dc_quant)
        d == DecodeDC(Reader(w.bits))
    IN  IF ~(w.ok /\ d.ok) THEN [set EXCEPT !.pc = "aborted"]
        ELSE [set EXCEPT !.pc = Checked(Close(d.br)),
                         !.dc_quant = d.dc_quant,
                         !.inv_dc_quant = d.inv_dc_quant]

(* Accessors *)
MatrixOffset(quant_kind, c) == table_offsets_[quant_kind * 3 + c]

(* Matrix and InvMatrix return pointers into table_: the index pointed at. *)
Matrix(quant_kind, c) == MatrixOffset(quant_kind, c)

(* An inverse half that starts in the middle of the forward half. *)
InvTable_Half == kTotalTableSize \div 2

InvTable == kTotalTableSize

(* An InvMatrix that forgets InvTable. *)
InvMatrix_Forward(quant_kind, c) == MatrixOffset(quant_kind, c)

InvMatrix(quant_kind, c) == InvTable + MatrixOffset(quant_kind, c)

(* An accessor that reads the other array. *)
DCQuant_ReadsInverse(c) == inv_dc_quant_[c + 1]

DCQuant(c) == dc_quant_[c + 1]

InvDCQuant(c) == inv_dc_quant_[c + 1]

Size == size_

encodings == encodings_

-----------------------------------------------------------------------------
(* The encoding sets SetCustom is called with: the default set with one or *)
(* two entries replaced.                                                   *)

BandCounts == 1..kMaxDistanceBands

(* The band counts tried for the modes that add multipliers or a second    *)
(* set of bands: the smallest, the next, and the two largest.              *)
EdgeCounts == {1, 2, kMaxDistanceBands - 1, kMaxDistanceBands}

DefaultSet == [i \in 1..kNum |-> EncLibrary(0)]

(* <<entry, encoding>>: each mode at the entry of a table of its shape,    *)
(* RAW at the first entry and at entry 5.                                  *)
SampleEntries ==
    {<<QuantTable.DCT + 1, EncDCT(DctQuantWeightParams(BandRows(n, 2)))>> :
        n \in BandCounts}
    \cup {<<QuantTable.DCT32X32 + 1, EncDCT(DctQuantWeightParams(BandRows(n, 1)))>> :
        n \in EdgeCounts}
    \cup {<<QuantTable.IDENTITY + 1, EncIdentity(w)>> :
        w \in {Rows(3, 0), Rows(3, 1), [c \in 1..3 |-> <<1, 0, 2>>]}}
    \cup {<<QuantTable.DCT2X2 + 1, EncDCT2(Rows(6, 1))>>}
    \cup {<<QuantTable.DCT4X4 + 1,
            EncDCT4(DctQuantWeightParams(BandRows(n, 0)), Rows(2, 1))>> :
        n \in EdgeCounts}
    \cup {<<QuantTable.DCT4X8 + 1,
            EncDCT4X8(DctQuantWeightParams(BandRows(n, 1)), Rows(1, 1))>> :
        n \in EdgeCounts}
    \cup {<<QuantTable.AFV0 + 1,
            EncAFV(DctQuantWeightParams(BandRows(n, 0)),
                   DctQuantWeightParams(BandRows(kMaxDistanceBands + 1 - n, 1)),
                   Rows(9, 0))>> :
        n \in EdgeCounts}
    \cup {<<i, EncRAW(t, sh)>> :
        i \in {1, 6}, t \in {<<1, 2>>, <<0, 1, 2>>}, sh \in {0, 1}}

SampleSets ==
    {DefaultSet}
    \cup {[DefaultSet EXCEPT ![x[1]] = x[2]] : x \in SampleEntries}
    \cup {[DefaultSet EXCEPT ![1] = EncDCT(DctQuantWeightParams(BandRows(3, 0))),
                             ![6] = EncRAW(t, 0)] : t \in {<<1, 2>>, <<0, 1, 2>>}}
    \cup {SubSeq(DefaultSet, 1, kNum - 1), DefaultSet \o <<EncLibrary(0)>>}

SampleDC ==
    {<<Float(4096), Float(512), Float(256)>>,
     <<Float(41), Float(6), Float(64)>>,
     <<Float(1), Float(2), Float(4)>>,
     <<Float(8), <<1, 2>>, Float(3)>>,
     <<Float(0), Float(1), Float(1)>>}

Construct ==
    /\ pc = "none"
    /\ ApplyDM(DequantMatrices)
    /\ calls' = 0
    /\ dmLast' = [NoDMOp EXCEPT !.op = "Construct"]
    /\ UNCHANGED auxVars

SetCustom(x) ==
    /\ pc = "ready" /\ calls < MaxCalls
    /\ ApplyDM(SetCustomOutcome(x))
    /\ calls' = calls + 1
    /\ dmLast' = [NoDMOp EXCEPT !.op = "SetCustom", !.arg = x]
    /\ UNCHANGED auxVars

SetCustomDC(dc) ==
    /\ pc = "ready" /\ calls < MaxCalls
    /\ ApplyDM(SetCustomDCOutcome(dc))
    /\ calls' = calls + 1
    /\ dmLast' = [NoDMOp EXCEPT !.op = "SetCustomDC", !.dc = dc]
    /\ UNCHANGED auxVars

Next ==
    \/ Construct
    \/ \E x \in SampleSets : SetCustom(x)
    \/ \E dc \in SampleDC : SetCustomDC(dc)

Spec == Init /\ [][Next]_vars

SpecQE == Init /\ [][NextQE]_vars

-----------------------------------------------------------------------------
(* Properties of DequantMatrices *)

(* All 11 entries yield usable tables. *)
ValidSet(x) == Len(x) = kNum /\ \A t \in Tables : ValidTable(x[t + 1], t)

(* The band counts of the distance-band parameters an encoding uses. *)
BandCountsOf(e) ==
    CASE e.mode \in {kQuantModeDCT, kQuantModeDCT4, kQuantModeDCT4X8} ->
            {e.dct_params.num_distance_bands}
      [] e.mode = kQuantModeAFV ->
            {e.dct_params.num_distance_bands,
             e.dct_params_afv_4x4.num_distance_bands}
      [] OTHER -> {}

BandCountsIn(x) == UNION {BandCountsOf(x[i]) : i \in 1..Len(x)}

(* The largest band count that the band-count field can carry. *)
MaxCodedBands == 2^kLog2MaxDistanceBands

(* SetCustom(x) returned with x held and the tables of x computed. *)
RoundTrips(x) ==
    /\ pc = "ready"
    /\ encodings_ = x
    /\ table_ = Compute(x, table_).table

C2_FailureKeepsState ==
    [][(dmLast'.op = "SetCustom" /\ calls' = calls + 1
            /\ Len(dmLast'.arg) = kNum /\ ~ValidSet(dmLast'.arg))
        => (pc' = "aborted" /\ encodings_' = encodings_ /\ table_' = table_)]_vars

(* C2, amended: a SetCustom with 11 encodings that do not pass validation  *)
(* aborts the process at JXL_CHECK(Decode(&br)), and by then encodings_    *)
(* holds the new encodings, not the ones held before the call.             *)
C2_FailureAbortsInstalled ==
    (dmLast.op = "SetCustom" /\ Len(dmLast.arg) = kNum /\ ~ValidSet(dmLast.arg))
    => (pc = "aborted" /\ encodings_ = dmLast.arg)

C2_Witness ==
    /\ dmLast.op = "SetCustom" /\ Len(dmLast.arg) = kNum /\ ~ValidSet(dmLast.arg)
    /\ dmLast.arg[6].mode = kQuantModeRAW
    /\ \E k \in 1..Len(dmLast.arg[6].qtable) : dmLast.arg[6].qtable[k] = 0
    /\ pc = "aborted"
    /\ encodings_ # DefaultSet

(* Every table of table_, forward and inverse, has weights and all of them *)
(* are positive and finite.                                                *)
TablesPositiveFinite ==
    \A b \in Blocks :
        /\ Len(table_[b]) > 0
        /\ \A k \in 1..Len(table_[b]) :
              IsPositive(table_[b][k]) /\ IsFinite(table_[b][k])

(* C7: default construction succeeds, and right after it encodings() has   *)
(* exactly 11 entries, each in mode Library with predefined index 0, and   *)
(* the tables are positive and finite for all 11 shapes and 3 channels.    *)
C7_DefaultConstruction ==
    dmLast.op = "Construct"
    => /\ pc = "ready"
       /\ Len(encodings) = kNum
       /\ \A i \in 1..Len(encodings) :
             encodings[i].mode = kQuantModeLibrary /\ encodings[i].predefined = 0
       /\ Size = kTotalTableSize
       /\ Cardinality(Blocks) = 2 * kNum * 3
       /\ TablesPositiveFinite

C7_Witness == dmLast.op = "Construct" /\ pc = "ready" /\ Len(encodings) = kNum

(* C8: on a default-constructed DequantMatrices InvDCQuant(c) is 4096,     *)
(* 512, 256 for c = 0, 1, 2 and DCQuant(c) is 1/4096, 1/512, 1/256.        *)
C8_DefaultDCQuant ==
    dmLast.op = "Construct"
    => /\ InvDCQuant(0) = <<4096, 1>> /\ DCQuant(0) = <<1, 4096>>
       /\ InvDCQuant(1) = <<512, 1>> /\ DCQuant(1) = <<1, 512>>
       /\ InvDCQuant(2) = <<256, 1>> /\ DCQuant(2) = <<1, 256>>

C8_Witness == dmLast.op = "Construct" /\ InvDCQuant(0) = <<4096, 1>>

(* C10: kinds that kQuantTable maps to the same logical table have the     *)
(* same MatrixOffset in every channel, so Matrix and InvMatrix give the    *)
(* same values for both; every kind maps to a table below 11 and each of   *)
(* the 11 tables is the table of some kind.                                *)
C10_SharedTables ==
    pc # "none"
    => /\ \A k1, k2 \in Kinds : \A c \in Channels :
             kQuantTable[k1 + 1] = kQuantTable[k2 + 1]
             => /\ MatrixOffset(k1, c) = MatrixOffset(k2, c)
                /\ table_[Matrix(k1, c)] = table_[Matrix(k2, c)]
                /\ table_[InvMatrix(k1, c)] = table_[InvMatrix(k2, c)]
       /\ Len(kQuantTable) = kNumValidStrategies
       /\ \A k \in Kinds : kQuantTable[k + 1] \in 0..(kNum - 1)
       /\ \A t \in Tables : \E k \in Kinds : kQuantTable[k + 1] = t

C10_Witness ==
    /\ pc = "ready" /\ dmLast.op = "SetCustom" /\ dmLast.arg # DefaultSet
    /\ \E k1, k2 \in Kinds :
          /\ k1 # k2 /\ kQuantTable[k1 + 1] = kQuantTable[k2 + 1]
          /\ MatrixOffset(k1, 0) = MatrixOffset(k2, 0)
          /\ MatrixOffset(k1, 0) > 0

-----------------------------------------------------------------------------
(* Reader threads.  A thread enters an accessor, the accessor runs, and    *)
(* the thread leaves with the value.  The writers Construct, SetCustom and *)
(* SetCustomDC run only while no thread is in an accessor.                 *)

Accessors ==
    {"MatrixOffset", "Matrix", "InvMatrix", "DCQuant", "InvDCQuant", "Size", "encodings"}

(* The calls the threads make: each accessor once, with kinds 6 and 7      *)
(* (which share a table) and the first and last channel.                   *)
ReaderCalls ==
    {<<"MatrixOffset", 6, 0>>, <<"Matrix", 7, 2>>, <<"InvMatrix", 6, 2>>,
     <<"DCQuant", 0, 0>>, <<"InvDCQuant", 0, 2>>,
     <<"Size", 0, 0>>, <<"encodings", 0, 0>>}

(* What a call of the accessor returns in the current state. *)
AccessorValue(fn, quant_kind, c) ==
    CASE fn = "MatrixOffset" -> MatrixOffset(quant_kind, c)
      [] fn = "Matrix" -> Matrix(quant_kind, c)
      [] fn = "InvMatrix" -> InvMatrix(quant_kind, c)
      [] fn = "DCQuant" -> DCQuant(c)
      [] fn = "InvDCQuant" -> InvDCQuant(c)
      [] fn = "Size" -> Size
      [] fn = "encodings" -> encodings

(* An accessor that keeps the value it returned in size_. *)
AccessorOutcome_Caches(fn, quant_kind, c) ==
    [fields |-> IF fn \in {"MatrixOffset", "Matrix", "InvMatrix"}
                THEN [Cur EXCEPT !.size = AccessorValue(fn, quant_kind, c)]
                ELSE Cur,
     value |-> AccessorValue(fn, quant_kind, c)]

(* The accessors are const member functions: the fields stay as they are. *)
AccessorOutcome(fn, quant_kind, c) ==
    [fields |-> Cur, value |-> AccessorValue(fn, quant_kind, c)]

NoReaderInCall == \A t \in Threads : rd[t].at = "idle"

ReaderCall(t, x) ==
    /\ pc = "ready" /\ rd[t].at = "idle"
    /\ rd' = [rd EXCEPT ![t] = [at |-> "called", fn |-> x[1], quant_kind |-> x[2],
                                c |-> x[3], ret |-> <<>>]]
    /\ UNCHANGED <<qeVars, dmVars, st, prm, rowCall>>

ReaderRun(t) ==
    /\ rd[t].at = "called"
    /\ LET o == AccessorOutcome(rd[t].fn, rd[t].quant_kind, rd[t].c)
       IN  /\ ApplyDM(o.fields)
           /\ rd' = [rd EXCEPT ![t].at = "returned", ![t].ret = o.value]
    /\ UNCHANGED <<calls, dmLast, st, prm, rowCall>>

ReaderReturn(t) ==
    /\ rd[t].at = "returned"
    /\ rd' = [rd EXCEPT ![t] = IdleReader]
    /\ UNCHANGED <<qeVars, dmVars, st, prm, rowCall>>

(* The sets and DC values the writers are called with between reads. *)
ReaderSets == {[DefaultSet EXCEPT ![1] = EncRAW(<<1, 2>>, 1)]}

ReaderDC == {<<Float(1), Float(2), Float(4)>>, <<Float(8), <<1, 2>>, Float(3)>>}

WriterSetCustom(x) == NoReaderInCall /\ SetCustom(x)

WriterSetCustomDC(dc) == NoReaderInCall /\ SetCustomDC(dc)

NextReaders ==
    \/ Construct
    \/ \E x \in ReaderSets : WriterSetCustom(x)
    \/ \E dc \in ReaderDC : WriterSetCustomDC(dc)
    \/ \E t \in Threads : \E x \in ReaderCalls : ReaderCall(t, x)
    \/ \E t \in Threads : ReaderRun(t)
    \/ \E t \in Threads : ReaderReturn(t)

SpecReaders == Init /\ [][NextReaders]_vars

Fields ==
    <<encodings_, table_, table_offsets_, size_, dc_quant_, inv_dc_quant_>>

(* C11: with no writer call in flight, concurrent calls of Matrix,         *)
(* InvMatrix, MatrixOffset, DCQuant, InvDCQuant, Size and encodings leave  *)
(* every field of the instance unchanged, and each caller gets the value a *)
(* sequential call returns.                                                *)
C11_ReadersDoNotInterfere ==
    /\ [][(rd' # rd) => (Fields' = Fields /\ pc' = pc)]_vars
    /\ [](\A t \in Threads :
            rd[t].at = "returned"
            => rd[t].ret = AccessorValue(rd[t].fn, rd[t].quant_kind, rd[t].c))

C11_Witness ==
    /\ rd[1].at = "returned" /\ rd[1].fn = "InvMatrix"
    /\ rd[1].ret = InvMatrix(rd[1].quant_kind, rd[1].c)
    /\ rd[2].at = "returned" /\ rd[2].fn = "encodings"
    /\ rd[2].ret # DefaultSet
    /\ dmLast.op = "SetCustom"

-----------------------------------------------------------------------------
(* C12: SetCustom called with a vector whose length is not kNum = 11       *)
(* aborts before any field of the instance is modified, and the instance   *)
(* never holds a set of fewer or more than 11 encodings.                   *)
C12_LengthMismatchAborts ==
    /\ [][(dmLast'.op = "SetCustom" /\ calls' = calls + 1
                /\ Len(dmLast'.arg) # kNum)
            => (pc' = "aborted" /\ Fields' = Fields)]_vars
    /\ [](pc # "none" => Len(encodings_) = kNum)

C12_Witness ==
    /\ dmLast.op = "SetCustom" /\ Len(dmLast.arg) = kNum + 1
    /\ pc = "aborted" /\ calls = 2
    /\ Len(encodings_) = kNum /\ encodings_ # DefaultSet

-----------------------------------------------------------------------------
(* Properties of the DC quantizers *)

(* dc as DecodeDC reads it back from what EncodeDC wrote. *)
SurvivingDC(dc) == DecodeDC(Reader(EncodeDC(dc).bits)).inv_dc_quant

(* The float product a * b is 1.0f: the exact product is within half a     *)
(* unit in the last place of 1, which is 2^-24 above 1 and 2^-25 below.    *)
FloatProductIsOne(a, b) ==
    LET p == Mul(a, b)
    IN  /\ p[2] > 0
        /\ IF p[1] >= p[2] THEN p[1] - p[2] <= p[2] \div 2^24
                            ELSE p[2] - p[1] <= p[2] \div 2^25

(* The exact product a * b is within 2^-24 of 1. *)
ProductNearOne(a, b) ==
    LET p == Mul(a, b)
    IN  /\ p[2] > 0
        /\ IF p[1] >= p[2] THEN p[1] - p[2] <= p[2] \div 2^24
                            ELSE p[2] - p[1] <= p[2] \div 2^24

(* InvDCQuant is what survived of the dc last set. *)
HoldsSurvivingDC ==
    (dmLast.op = "SetCustomDC" /\ pc = "ready")
    => \A c \in Channels : InvDCQuant(c) = SurvivingDC(dmLast.dc)[c + 1]

(* C13 as stated: after SetCustomDC(dc) returns, InvDCQuant(c) is dc[c] as *)
(* it survives EncodeDC and DecodeDC, DCQuant(c) is its reciprocal, and    *)
(* DCQuant(c) * InvDCQuant(c) == 1 in every state reached by construction  *)
(* and SetCustomDC calls with positive dc.                                 *)
C13_DCPairIsReciprocal ==
    /\ HoldsSurvivingDC
    /\ pc = "ready"
       => \A c \in Channels : FloatProductIsOne(DCQuant(c), InvDCQuant(c))

(* C13, amended: InvDCQuant(c) is dc[c] as it survives EncodeDC and        *)
(* DecodeDC and DCQuant(c) is the float nearest to its reciprocal, so the  *)
(* product is within 2^-24 of 1; it is 1 when dc[c] is a power of two.     *)
C13_DCPairIsNearestReciprocal ==
    /\ HoldsSurvivingDC
    /\ pc = "ready"
       => \A c \in Channels :
            /\ DCQuant(c) = Recip(InvDCQuant(c))
            /\ ProductNearOne(DCQuant(c), InvDCQuant(c))
            /\ OddPart(InvDCQuant(c)[1]) = 1
               => FloatProductIsOne(DCQuant(c), InvDCQuant(c))

C13_Witness ==
    /\ dmLast.op = "SetCustomDC" /\ pc = "ready"
    /\ InvDCQuant(0) = Float(41) /\ DCQuant(0) = Recip(Float(41))
    /\ ~FloatProductIsOne(DCQuant(0), InvDCQuant(0))
    /\ FloatProductIsOne(DCQuant(1), InvDCQuant(1))
    /\ FloatProductIsOne(DCQuant(2), InvDCQuant(2))

-----------------------------------------------------------------------------
(* Properties of the computed tables *)

(* Every forward table has weights, all positive and finite. *)
ForwardPositiveFinite ==
    \A k \in Kinds : \A c \in Channels :
        LET fwd == table_[Matrix(k, c)]
        IN  /\ Len(fwd) > 0
            /\ \A i \in 1..Len(fwd) : IsPositive(fwd[i]) /\ IsFinite(fwd[i])

(* Some entry of x yields a weight that is zero or not finite. *)
HasBadWeight(x) ==
    \E t \in Tables : \E c \in 1..3 :
        LET ws == Weights(x[t + 1], t, c)
        IN  \E i \in 1..Len(ws) : ~IsPositive(ws[i]) \/ ~IsFinite(ws[i])

(* C14: whenever Compute reports success every forward weight of all 11    *)
(* tables and 3 channels is positive and finite; a set that yields a zero  *)
(* or non-finite weight makes Compute report failure, and no table is put  *)
(* in its place.                                                           *)
C14_ComputeValidates ==
    /\ pc = "ready" => (Compute(encodings_, table_).ok /\ ForwardPositiveFinite)
    /\ (dmLast.op = "SetCustom" /\ Len(dmLast.arg) = kNum /\ HasBadWeight(dmLast.arg))
       => (~Compute(dmLast.arg, table_).ok /\ pc = "aborted"
           /\ encodings_ = dmLast.arg)

C14_Witness ==
    /\ dmLast.op = "SetCustom" /\ Len(dmLast.arg) = kNum /\ HasBadWeight(dmLast.arg)
    /\ dmLast.arg[1].mode = kQuantModeRAW
    /\ ~Compute(dmLast.arg, table_).ok
    /\ encodings_[1].mode = kQuantModeRAW

(* C15: after every successful Compute, for every kind, channel and        *)
(* coefficient the inverse entry is the reciprocal of the forward entry at *)
(* the same offset: forward * inverse is 1 within 2^-24.                   *)
C15_InverseIsReciprocal ==
    pc = "ready"
    => \A k \in Kinds : \A c \in Channels :
         LET fwd == table_[Matrix(k, c)]
             inv == table_[InvMatrix(k, c)]
         IN  /\ Len(inv) = Len(fwd)
             /\ \A i \in 1..Len(fwd) :
                   inv[i] = Recip(fwd[i]) /\ ProductNearOne(fwd[i], inv[i])

C15_Witness ==
    /\ pc = "ready" /\ dmLast.op = "SetCustom"
    /\ encodings_[1].mode = kQuantModeDCT
    /\ \E i \in 1..Len(table_[Matrix(0, 0)]) :
          /\ table_[Matrix(0, 0)][i] = Float(3)
          /\ table_[InvMatrix(0, 0)][i] = Recip(Float(3))
          /\ table_[InvMatrix(0, 0)][i] # table_[Matrix(0, 0)][i]

RECURSIVE AreaSum(_)
(* The sum of required_size_x_[i] * required_size_y_[i] over tables 0..t *)
AreaSum(t) ==
    required_size_x_[t + 1] * required_size_y_[t + 1]
    + (IF t = 0 THEN 0 ELSE AreaSum(t - 1))

(* C16: the buffer has exactly 2 * kTotalTableSize floats, kTotalTableSize *)
(* being the sum over the 11 tables of required_size_x_ * required_size_y_ *)
(* * 64 * 3; required_size_[i] is required_size_x_[i] * required_size_y_[i] *)
(* for every i, and no table needs more than kMaxQuantTableSize entries    *)
(* per channel.                                                            *)
C16_BufferSize ==
    pc # "none"
    => /\ AllocatedFloats = 2 * kTotalTableSize
       /\ kTotalTableSize = AreaSum(kNum - 1) * 64 * 3
       /\ Len(required_size_) = kNum
       /\ Len(required_size_x_) = kNum /\ Len(required_size_y_) = kNum
       /\ \A t \in Tables :
             /\ required_size_[t + 1] = required_size_x_[t + 1] * required_size_y_[t + 1]
             /\ required_size_[t + 1] * kDCTBlockSize <= kMaxQuantTableSize
       /\ kMaxQuantTableSize = 16 * 64

C16_Witness ==
    /\ pc = "ready" /\ kTotalTableSize = 7680 /\ AllocatedFloats = 15360
    /\ required_size_[QuantTable.DCT32X32 + 1] * kDCTBlockSize = kMaxQuantTableSize

(* The entries of the table of a kind, per channel. *)
EntriesOf(k) == required_size_[kQuantTable[k + 1] + 1] * kDCTBlockSize

(* C19: for every kind k < 18 and channel c < 3, InvMatrix(k, c) is        *)
(* kTotalTableSize elements after Matrix(k, c), and MatrixOffset(k, c)     *)
(* plus the entries of the table of k is at most kTotalTableSize; forward  *)
(* tables stay in the forward half, inverse tables inside the buffer, and  *)
(* tables of distinct (logical table, channel) pairs do not overlap.       *)
C19_TablesInsideBuffer ==
    pc # "none"
    => /\ \A k \in Kinds : \A c \in Channels :
             /\ InvMatrix(k, c) = Matrix(k, c) + kTotalTableSize
             /\ MatrixOffset(k, c) + EntriesOf(k) <= kTotalTableSize
             /\ InvMatrix(k, c) + EntriesOf(k) <= AllocatedFloats
       /\ \A k1, k2 \in Kinds : \A c1, c2 \in Channels :
             (kQuantTable[k1 + 1] # kQuantTable[k2 + 1] \/ c1 # c2)
             => \/ MatrixOffset(k1, c1) + EntriesOf(k1) <= MatrixOffset(k2, c2)
                \/ MatrixOffset(k2, c2) + EntriesOf(k2) <= MatrixOffset(k1, c1)

C19_Witness ==
    /\ pc = "ready"
    /\ MatrixOffset(17, 2) + EntriesOf(17) = kTotalTableSize
    /\ InvMatrix(17, 2) + EntriesOf(17) = AllocatedFloats
    /\ InvMatrix(0, 0) = kTotalTableSize

-----------------------------------------------------------------------------
(* SetCustom statement by statement.  st.at is the statement to run next,  *)
(* st.writer and st.br are the locals writer and br, st.trace lists the    *)
(* statements run so far, each with whether it succeeded.                  *)

StatementOrder ==
    <<"JXL_ASSERT", "install", "Encode", "ZeroPadToByte", "Decode", "Close">>

StatementAfter(at) ==
    IF at = "Close" THEN "returned"
    ELSE LET i == CHOOSE j \in 1..Len(StatementOrder) : StatementOrder[j] = at
         IN  StatementOrder[i + 1]

(* The statement at s.at has run with the result ok: the call goes on to   *)
(* the next statement, or the process is aborted.                          *)
Ran(s, ok, fields) ==
    [st |-> [s EXCEPT !.at = IF ok THEN StatementAfter(s.at) ELSE "aborted",
                      !.trace = Append(@, <<s.at, ok>>)],
     fields |-> [fields EXCEPT !.pc = IF ok THEN @ ELSE "aborted"]]

(* A SetCustom whose checks let the call return after a failure. *)
SetCustomStatement_ReturnsAfterFailure(s) ==
    CASE s.at = "JXL_ASSERT" -> Ran(s, Len(s.arg) = kNum, Cur)
      [] s.at = "install" -> Ran(s, TRUE, [Cur EXCEPT !.encodings = s.arg])
      [] s.at = "Encode" ->
            Ran([s EXCEPT !.writer = Encode(encodings_).bits], TRUE, Cur)
      [] s.at = "ZeroPadToByte" -> Ran([s EXCEPT !.br = Reader(s.writer)], TRUE, Cur)
      [] s.at = "Decode" ->
            CHOOSE o \in
                {[st |-> [s EXCEPT !.at = "Close", !.br = d.br,
                                   !.trace = Append(@, <<s.at, d.ok>>)],
                  fields |-> [Cur EXCEPT !.encodings = d.encodings, !.table = d.table,
                                         !.offsets = d.offsets, !.size = d.size]] :
                    d \in {Decode(s.br, encodings_, table_, table_offsets_, size_)}} :
                TRUE
      [] s.at = "Close" -> Ran(s, Close(s.br), Cur)

(* One statement of SetCustom, lines 405 to 414. *)
SetCustomStatement(s) ==
    CASE s.at = "JXL_ASSERT" -> Ran(s, Len(s.arg) = kNum, Cur)
      [] s.at = "install" -> Ran(s, TRUE, [Cur EXCEPT !.encodings = s.arg])
      [] s.at = "Encode" ->
            CHOOSE o \in
                {Ran([s EXCEPT !.writer = w.bits], w.ok, Cur) :
                    w \in {Encode(encodings_)}} : TRUE
      [] s.at = "ZeroPadToByte" -> Ran([s EXCEPT !.br = Reader(s.writer)], TRUE, Cur)
      [] s.at = "Decode" ->
            CHOOSE o \in
                {Ran([s EXCEPT !.br = d.br], d.ok,
                     [Cur EXCEPT !.encodings = d.encodings, !.table = d.table,
                                 !.offsets = d.offsets, !.size = d.size]) :
                    d \in {Decode(s.br, encodings_, table_, table_offsets_, size_)}} :
                TRUE
      [] s.at = "Close" -> Ran(s, Close(s.br), Cur)

SetCustomCall(x) ==
    /\ pc = "ready" /\ st.at = "none" /\ calls < MaxCalls
    /\ st' = [NoStep EXCEPT !.at = "JXL_ASSERT", !.arg = x]
    /\ UNCHANGED <<qeVars, dmVars, rd, prm, rowCall>>

SetCustomStep ==
    /\ st.at \in {StatementOrder[i] : i \in 1..Len(StatementOrder)}
    /\ LET o == SetCustomStatement(st)
       IN  ApplyDM(o.fields) /\ st' = o.st
    /\ UNCHANGED <<calls, dmLast, rd, prm, rowCall>>

SetCustomReturn ==
    /\ st.at = "returned"
    /\ st' = NoStep
    /\ calls' = calls + 1
    /\ dmLast' = [NoDMOp EXCEPT !.op = "SetCustom", !.arg = st.arg]
    /\ UNCHANGED <<qeVars, pc, encodings_, table_, table_offsets_, size_,
                   dc_quant_, inv_dc_quant_, rd, prm, rowCall>>

NextSteps ==
    \/ Construct
    \/ \E x \in SampleSets : SetCustomCall(x)
    \/ SetCustomStep
    \/ SetCustomReturn

SpecSteps == Init /\ [][NextSteps]_vars

StatementsRun == [i \in 1..Len(st.trace) |-> st.trace[i][1]]

HasRun(name) == \E i \in 1..Len(st.trace) : st.trace[i][1] = name

(* C17: within one SetCustom call the encodings are installed, Encode is   *)
(* run on the installed set, the writer is padded to a byte, Decode is run *)
(* on the bytes produced and the reader is closed, in this order; the call *)
(* returns only if Encode, Decode and Close all succeeded, and after a     *)
(* failure of any of them it never returns.                                *)
C17_StepOrder ==
    /\ StatementsRun = SubSeq(StatementOrder, 1, Len(st.trace))
    /\ (HasRun("install") /\ ~HasRun("Decode")) => encodings_ = st.arg
    /\ HasRun("Encode") => st.writer = Encode(st.arg).bits
    /\ HasRun("ZeroPadToByte") => st.br.bits = st.writer
    /\ st.at = "returned"
       => /\ StatementsRun = StatementOrder
          /\ \A i \in 1..Len(st.trace) : st.trace[i][2]
          /\ pc = "ready"
    /\ (\E i \in 1..Len(st.trace) : ~st.trace[i][2])
       => (st.at = "aborted" /\ pc = "aborted")

C17_Witness ==
    /\ st.at = "returned" /\ st.arg # DefaultSet /\ calls = 1
    /\ StatementsRun = StatementOrder
    /\ encodings_ = st.arg

(* A failing Decode ends the call and the process. *)
C17_WitnessFailure ==
    /\ st.at = "aborted" /\ HasRun("Decode") /\ ~HasRun("Close")
    /\ pc = "aborted"

-----------------------------------------------------------------------------
(* The constructors of DctQuantWeightParams.  prm holds the value made:    *)
(* the band count given, the floats written per channel, and whether the   *)
(* write went past the kMaxDistanceBands floats of a channel.              *)

(* The largest band count a constructor is called with. *)
MaxBandsArg == 19

(* Full arrays, as the two-argument constructor takes them. *)
SampleArrays ==
    {ZeroBands,
     DctQuantWeightParams(BandRows(kMaxDistanceBands, 0)).distance_bands,
     DctQuantWeightParams(BandRows(5, 1)).distance_bands}

(* constexpr DctQuantWeightParams() *)
ParamsDefaultOutcome ==
    [NoParams EXCEPT !.op = "default", !.v = DctQuantWeightParams0]

(* constexpr DctQuantWeightParams(const DistanceBandsArray& dist_bands,    *)
(*                                size_t num_dist_bands)                   *)
ParamsFromArrayOutcome(dist_bands, num_dist_bands) ==
    [NoParams EXCEPT !.op = "array", !.num_dist_bands = num_dist_bands,
                     !.written = kMaxDistanceBands,
                     !.v = [num_distance_bands |-> num_dist_bands,
                            distance_bands |-> dist_bands]]

(* template <size_t num_dist_bands> explicit DctQuantWeightParams(         *)
(*     const float dist_bands[3][num_dist_bands]): memcpy of               *)
(* num_dist_bands floats into each channel.  Beyond kMaxDistanceBands the  *)
(* copy runs over the end of the channel, and for the last channel over    *)
(* the end of the array; what that does to the process is not defined.     *)
ParamsFromBandsOutcomes(dist_bands) ==
    LET n == Len(dist_bands[1])
        made == [NoParams EXCEPT !.op = "bands", !.num_dist_bands = n,
                                 !.written = n,
                                 !.v = DctQuantWeightParams(dist_bands)]
    IN  IF n <= kMaxDistanceBands THEN {made}
        ELSE {[made EXCEPT !.overrun = TRUE],
              [made EXCEPT !.overrun = TRUE, !.op = "crashed"]}

ParamsDefault ==
    /\ prm.op # "crashed"
    /\ prm' = ParamsDefaultOutcome
    /\ UNCHANGED <<qeVars, dmVars, rd, st, rowCall>>

ParamsFromArray(dist_bands, num_dist_bands) ==
    /\ prm.op # "crashed"
    /\ prm' = ParamsFromArrayOutcome(dist_bands, num_dist_bands)
    /\ UNCHANGED <<qeVars, dmVars, rd, st, rowCall>>

ParamsFromBands(dist_bands) ==
    /\ prm.op # "crashed"
    /\ prm' \in ParamsFromBandsOutcomes(dist_bands)
    /\ UNCHANGED <<qeVars, dmVars, rd, st, rowCall>>

NextParams ==
    \/ ParamsDefault
    \/ \E a \in SampleArrays : \E n \in 0..MaxBandsArg : ParamsFromArray(a, n)
    \/ \E n \in 1..MaxBandsArg : \E p \in 0..2 : ParamsFromBands(BandRows(n, p))

SpecParams == Init /\ [][NextParams]_vars

(* C18: every DctQuantWeightParams made by a public constructor has        *)
(* num_distance_bands in 0..17, construction writes at most 17 band values *)
(* per channel, and no constructor call yields a band count larger than    *)
(* the 17-entry storage of a channel.                                      *)
C18_BandCountWithinStorage ==
    prm.op # "none"
    => /\ prm.v.num_distance_bands \in 0..kMaxDistanceBands
       /\ prm.written <= kMaxDistanceBands
       /\ ~prm.overrun
       /\ prm.op # "crashed"

-----------------------------------------------------------------------------
(* BytesPerRow (jxl/image.cc).  The vector size is that of the target      *)
(* chosen at run time, 0 where there are no vectors; the cache-line        *)
(* alignment is a constant of the build.  The sizes stay far below the     *)
(* range of size_t.                                                        *)

MaxXSize == 2100

SizeofT == {1, 2, 4, 8}

VectorSizes == {0, 1, 16, 32, 64}

Alignments == {64, 128}

(* CacheAligned::kAlias, 2 KiB *)
kAlias == 2048

Max(a, b) == IF a >= b THEN a ELSE b

(* RoundUpTo(what, align): the least multiple of align that is >= what *)
RoundUpTo(what, align) == ((what + align - 1) \div align) * align

(* A BytesPerRow without the step away from multiples of kAlias. *)
BytesPerRow_KeepsAlias(xsize, sizeof_t, vec_size, kAlignment) ==
    LET valid_bytes == xsize * sizeof_t
                       + (IF vec_size # 0 THEN vec_size - sizeof_t ELSE 0)
    IN  RoundUpTo(valid_bytes, Max(vec_size, kAlignment))

(* size_t BytesPerRow(const size_t xsize, const size_t sizeof_t), with     *)
(* VectorSize() and CacheAligned::kAlignment as further arguments.         *)
BytesPerRow(xsize, sizeof_t, vec_size, kAlignment) ==
    LET valid_bytes == xsize * sizeof_t
                       + (IF vec_size # 0 THEN vec_size - sizeof_t ELSE 0)
        align == Max(vec_size, kAlignment)
        bytes_per_row == RoundUpTo(valid_bytes, align)
    IN  IF bytes_per_row % kAlias = 0 THEN bytes_per_row + align
        ELSE bytes_per_row

BytesPerRowCall(xsize, sizeof_t, vec_size, kAlignment) ==
    /\ rowCall = NoRow
    /\ rowCall' = [xsize |-> xsize, sizeof_t |-> sizeof_t, vec_size |-> vec_size,
                   kAlignment |-> kAlignment,
                   bytes_per_row |-> BytesPerRow(xsize, sizeof_t, vec_size, kAlignment)]
    /\ UNCHANGED <<qeVars, dmVars, rd, st, prm>>

BytesPerRowReturn ==
    /\ rowCall # NoRow
    /\ rowCall' = NoRow
    /\ UNCHANGED <<qeVars, dmVars, rd, st, prm>>

NextRows ==
    \/ /\ rowCall = NoRow
       /\ \E xsize \in 1..MaxXSize : \E sizeof_t \in SizeofT :
             \E vec_size \in VectorSizes : \E a \in Alignments :
                BytesPerRowCall(xsize, sizeof_t, vec_size, a)
    \/ BytesPerRowReturn

SpecRows == Init /\ [][NextRows]_vars

(* C20: BytesPerRow(xsize, sizeof_t), for xsize >= 1 and sizeof_t in       *)
(* {1, 2, 4, 8}, is a multiple of align = max(vector size, cache-line      *)
(* alignment), is at least xsize * sizeof_t, plus vector size minus        *)
(* sizeof_t when the vector size is not 0, and is not a multiple of        *)
(* kAlias.                                                                 *)
C20_BytesPerRow ==
    rowCall # NoRow
    => LET align == Max(rowCall.vec_size, rowCall.kAlignment)
       IN  /\ rowCall.bytes_per_row % align = 0
           /\ rowCall.bytes_per_row >= rowCall.xsize * rowCall.sizeof_t
           /\ rowCall.vec_size # 0
              => rowCall.bytes_per_row >=
                    rowCall.xsize * rowCall.sizeof_t
                    + rowCall.vec_size - rowCall.sizeof_t
           /\ rowCall.bytes_per_row % kAlias # 0

(* A row whose rounded size is 2 KiB and is moved one alignment further. *)
C20_Witness ==
    /\ rowCall # NoRow
    /\ rowCall.xsize * rowCall.sizeof_t = 2000 /\ rowCall.vec_size = 32
    /\ rowCall.bytes_per_row = kAlias + rowCall.kAlignment

====
